---- MODULE Spec2Model ----
(***************************************************************************)
(* Model of sugarcube.py: Units grouped in Measures, Converters to and     *)
(* from a Measure's base unit, Amounts, Ingredients and the transforms     *)
(* between Measures.                                                       *)
(*                                                                         *)
(* Numbers are exact rationals <<n, d>> (d > 0, lowest terms): the         *)
(* "arithmetic tolerance" of a float comparison is equality here.          *)
(* Exceptions are named by their Python class.                             *)
(***************************************************************************)
EXTENDS Integers, Sequences, FiniteSets, TLC

VARIABLES unitName, unitConverter, unitMeasure, mUnits, mAttrs, mTransforms, call

vars == <<unitName, unitConverter, unitMeasure, mUnits, mAttrs, mTransforms, call>>

(* ---------------- bounds ---------------- *)
MaxUnits == 3
MaxMeasures == 2

(* x is computed once and handed to F: one statement after the other *)
Then(x, F(_)) == CHOOSE y \in { F(r) : r \in {x} } : TRUE

(* ---------------- rationals ---------------- *)
Abs(x) == IF x < 0 THEN 0 - x ELSE x

RECURSIVE Gcd(_, _)
Gcd(a, b) == IF b = 0 THEN a ELSE Then(a % b, LAMBDA r : Gcd(b, r))

Norm(n, d) ==
    Then(<<n, d>>, LAMBDA p :
    Then(Gcd(Abs(p[1]), Abs(p[2])), LAMBDA g :
        IF p[2] < 0 THEN <<(0 - p[1]) \div g, (0 - p[2]) \div g>>
        ELSE <<p[1] \div g, p[2] \div g>>))

Rat(n, d) == Norm(n, d)
Num(n) == <<n, 1>>

(* the factors are cancelled crosswise before they are multiplied *)
RMul(x, y) ==
    Then(<<x, y>>, LAMBDA p :
    Then(<<Gcd(Abs(p[1][1]), p[2][2]), Gcd(Abs(p[2][1]), p[1][2])>>, LAMBDA g :
        Norm((p[1][1] \div g[1]) * (p[2][1] \div g[2]),
             (p[1][2] \div g[2]) * (p[2][2] \div g[1]))))

RAdd(x, y) ==
    Then(<<x, y>>, LAMBDA p :
        Norm(p[1][1] * p[2][2] + p[2][1] * p[1][2], p[1][2] * p[2][2]))

RSub(x, y) == Then(y, LAMBDA q : RAdd(x, <<0 - q[1], q[2]>>))
RInv(y) == Then(y, LAMBDA q : Norm(q[2], q[1]))
RDiv(x, y) == RMul(x, RInv(y))

(* ---------------- results of calls ---------------- *)
None == 0

Ok(x) == [err |-> "", x |-> x]
Raise(e) == [err |-> e, x |-> Num(0)]

(* ---------------- Converter ---------------- *)
(* lambda n: n * factor + constant *)
LinearTo(factor, constant, n) == Ok(RAdd(RMul(n, factor), constant))

(* lambda n: (n - constant) / factor *)
LinearFrom(factor, constant, n) ==
    IF factor[1] = 0 THEN Raise("ZeroDivisionError")
    ELSE Ok(RDiv(RSub(n, constant), factor))

Linear(factor, constant) == [factor |-> factor, constant |-> constant, swapped |-> FALSE]
Constant(constant) == Linear(Num(1), constant)
Neutral == Linear(Num(1), Num(0))
reverse(c) == [c EXCEPT !.swapped = ~c.swapped]

toBase(c, n) ==
    IF c.swapped THEN LinearFrom(c.factor, c.constant, n)
    ELSE LinearTo(c.factor, c.constant, n)

fromBase(c, n) ==
    IF c.swapped THEN LinearTo(c.factor, c.constant, n)
    ELSE LinearFrom(c.factor, c.constant, n)

(* ---------------- inputs ---------------- *)
(* Attributes every Measure instance or its class defines. *)
Fields == {"name", "units", "baseUnit", "transform_functions"}
Methods == {"addUnit", "addUnits", "transformTo", "addTransform"}

(* The values of the Amounts a client converts. *)
Values == { Num(1), Rat(3, 2) }

(* ---------------- the heap ---------------- *)
UnitIds == 1 .. Len(unitName)
MeasureIds == 1 .. Len(mUnits)

(* What an instance attribute of a Measure holds. *)
Own == [k |-> "own", u |-> None]
UnitRef(u) == [k |-> "unit", u |-> u]

(* The part of the heap the registry operations write. *)
Heap == [measure |-> unitMeasure, units |-> mUnits, attrs |-> mAttrs]

Done(h) == [h |-> h, err |-> ""]
Fail(h, e) == [h |-> h, err |-> e]

Put(d, key, v) == [x \in DOMAIN d \cup {key} |-> IF x = key THEN v ELSE d[x]]

(* Python attribute lookup on a Measure instance: the instance dictionary  *)
(* first, then the class.                                                  *)
IsUnitAttr(h, m, a) == a \in DOMAIN h.attrs[m] /\ h.attrs[m][a].k = "unit"

(* what m.a evaluates to: the instance attribute, else the class's method *)
ClassMethod == [k |-> "method", u |-> None]
GetAttr(h, m, a) == IF a \in DOMAIN h.attrs[m] THEN h.attrs[m][a] ELSE ClassMethod

(* Measure.addUnit, entered with self = m *)
addUnit(h, m, u) ==
    LET nm == unitName[u] IN
    IF IsUnitAttr(h, m, "units") THEN Fail(h, "TypeError")
    ELSE IF nm \in DOMAIN h.units[m] THEN Fail(h, "ValueError")
    ELSE Done([measure |-> [h.measure EXCEPT ![u] = m],
               units |-> [h.units EXCEPT ![m] = Put(@, nm, u)],
               attrs |-> [h.attrs EXCEPT ![m] = Put(@, nm, UnitRef(u))]])

(* the call m.addUnit(u): the attribute is looked up, then called *)
CallAddUnit(h, m, u) ==
    IF IsUnitAttr(h, m, "addUnit") THEN Fail(h, "TypeError")
    ELSE addUnit(h, m, u)

(* Measure.addUnits, entered with self = m *)
RECURSIVE addUnits(_, _, _)
addUnits(h, m, us) ==
    IF us = <<>> THEN Done(h)
    ELSE Then(CallAddUnit(h, m, Head(us)),
              LAMBDA r : IF r.err # "" THEN r ELSE addUnits(r.h, m, Tail(us)))

CallAddUnits(h, m, us) ==
    IF IsUnitAttr(h, m, "addUnits") THEN Fail(h, "TypeError")
    ELSE addUnits(h, m, us)

(* Measure.__init__ for the new Measure m = Len(mUnits) + 1 *)
MeasureInit(h, u) ==
    LET m == Len(h.units) + 1
        h0 == [measure |-> h.measure,
               units |-> Append(h.units, [x \in {} |-> None]),
               attrs |-> Append(h.attrs, [a \in {"name", "units"} |-> Own])]
    IN  Then(CallAddUnit(h0, m, u).h,
             LAMBDA h1 : [h1 EXCEPT !.attrs[m] =
                             Put(Put(@, "baseUnit", UnitRef(u)), "transform_functions", Own)])

(* Measure.addTransform, called as m.addTransform(t, f); returns the new *)
(* transform_functions of every Measure and the exception, if any        *)
addTransform(m, t, f) ==
    IF IsUnitAttr(Heap, m, "addTransform") THEN [tf |-> mTransforms, err |-> "TypeError"]
    ELSE IF IsUnitAttr(Heap, m, "transform_functions") THEN [tf |-> mTransforms, err |-> "TypeError"]
    ELSE IF t \notin DOMAIN mTransforms[m]
         THEN [tf |-> [mTransforms EXCEPT ![m] = Put(@, t, f)], err |-> ""]
         ELSE [tf |-> mTransforms, err |-> ""]

(* "..." + a.name + "..." + b.name, then raise cls: the exception that leaves *)
(* the statement (a, b: a Measure or None)                                    *)
RaiseNaming(a, b, cls) ==
    IF a = None THEN "AttributeError"
    ELSE IF IsUnitAttr(Heap, a, "name") THEN "TypeError"
    ELSE IF b = None THEN "AttributeError"
    ELSE IF IsUnitAttr(Heap, b, "name") THEN "TypeError"
    ELSE cls

NoFn == [kind |-> "none", src |-> None, dst |-> None]

(* Measure.transformTo, called as m.transformTo(t) *)
transformTo(m, t) ==
    IF IsUnitAttr(Heap, m, "transformTo") THEN [err |-> "TypeError", fn |-> NoFn]
    ELSE IF IsUnitAttr(Heap, m, "transform_functions") THEN [err |-> "TypeError", fn |-> NoFn]
    ELSE IF t \notin DOMAIN mTransforms[m]
         THEN [err |-> RaiseNaming(m, t, "ValueError"), fn |-> NoFn]
         ELSE [err |-> "", fn |-> mTransforms[m][t]]

(* ---------------- Amount ---------------- *)
Amount(value, unit) == [err |-> "", value |-> value, unit |-> unit]
NoAmount(e) == [err |-> e, value |-> Num(0), unit |-> None]

baseUnit(m) == mAttrs[m]["baseUnit"].u

(* toBaseUnit that relabels the value without converting it *)
toBaseUnitUnconverted(v, u) ==
    IF unitMeasure[u] = None THEN NoAmount("AttributeError")
    ELSE Amount(v, baseUnit(unitMeasure[u]))

(* Amount.toBaseUnit on Amount(v, u) *)
toBaseUnit(v, u) ==
    Then(toBase(unitConverter[u], v), LAMBDA r :
        IF r.err # "" THEN NoAmount(r.err)
        ELSE IF unitMeasure[u] = None THEN NoAmount("AttributeError")
        ELSE Amount(r.x, baseUnit(unitMeasure[u])))

(* Amount.to without the test of line 82 *)
toAnyMeasure(v, u, t) ==
    IF u = t THEN Amount(v, u)
    ELSE IF unitMeasure[u] = None THEN NoAmount("AttributeError")
    ELSE Then(IF u # baseUnit(unitMeasure[u]) THEN toBaseUnit(v, u) ELSE Amount(v, u),
              LAMBDA baseAmount :
                  IF baseAmount.err # "" THEN baseAmount
                  ELSE IF t = baseAmount.unit THEN baseAmount
                  ELSE Then(fromBase(unitConverter[t], baseAmount.value), LAMBDA r :
                           IF r.err # "" THEN NoAmount(r.err) ELSE Amount(r.x, t)))

(* Amount.to on Amount(v, u) with a Unit t *)
to(v, u, t) ==
    IF u = t THEN Amount(v, u)
    ELSE IF unitMeasure[t] # unitMeasure[u]
         THEN NoAmount(RaiseNaming(unitMeasure[u], unitMeasure[t], "TypeError"))
    ELSE IF unitMeasure[u] = None THEN NoAmount("AttributeError")
    ELSE Then(IF u # baseUnit(unitMeasure[u]) THEN toBaseUnit(v, u) ELSE Amount(v, u),
              LAMBDA baseAmount :
                  IF baseAmount.err # "" THEN baseAmount
                  ELSE IF t = baseAmount.unit THEN baseAmount
                  ELSE Then(fromBase(unitConverter[t], baseAmount.value), LAMBDA r :
                           IF r.err # "" THEN NoAmount(r.err) ELSE Amount(r.x, t)))

(* ---------------- Element, transform functions ---------------- *)
Element(density) == [has |-> TRUE, density |-> density]
NoDensity == [has |-> FALSE, density |-> Num(0)]

(* lambda volume, element: (element.density * volume.to(src)).value * dst *)
Times(src, dst) == [kind |-> "times", src |-> src, dst |-> dst]
(* lambda mass, element: ((mass.to(src)).value / element.density) * dst *)
Over(src, dst) == [kind |-> "over", src |-> src, dst |-> dst]

(* both transforms multiplying by the density *)
ApplyTimes(f, v, u, e) ==
    Then(to(v, u, f.src), LAMBDA r :
        IF ~e.has THEN NoAmount("AttributeError")
        ELSE IF r.err # "" THEN r
        ELSE Amount(RMul(e.density, r.value), f.dst))

(* a transform function called with (Amount(v, u), e) *)
Apply(f, v, u, e) ==
    Then(to(v, u, f.src), LAMBDA r :
        IF f.kind = "times"
        THEN IF ~e.has THEN NoAmount("AttributeError")
             ELSE IF r.err # "" THEN r
             ELSE Amount(RMul(e.density, r.value), f.dst)
        ELSE IF r.err # "" THEN r
             ELSE IF ~e.has THEN NoAmount("AttributeError")
             ELSE IF e.density[1] = 0 THEN NoAmount("ZeroDivisionError")
             ELSE Amount(RDiv(r.value, e.density), f.dst))

(* ---------------- Ingredient ---------------- *)
(* Ingredient._transform on Ingredient(Amount(v, u), e) with a Unit unit *)
Transform(v, u, e, unit) ==
    IF unitMeasure[u] = None THEN NoAmount("AttributeError")
    ELSE Then(transformTo(unitMeasure[u], unitMeasure[unit]), LAMBDA f :
             IF f.err # "" THEN NoAmount(f.err)
             ELSE Then(Apply(f.fn, v, u, e), LAMBDA newAmount :
                      IF newAmount.err # "" THEN newAmount
                      ELSE to(newAmount.value, newAmount.unit, unit)))

(* Ingredient.to on Ingredient(Amount(v, u), e); the argument is a Measure *)
(* (isMeasure) or a Unit; the result's amount                             *)
IngredientTo(v, u, e, isMeasure, target) ==
    LET unit == IF isMeasure THEN baseUnit(target) ELSE target IN
    IF unitMeasure[unit] = unitMeasure[u] THEN to(v, u, unit)
    ELSE Transform(v, u, e, unit)

(* ---------------- the operations a client performs ---------------- *)
NoCall ==
    [op |-> "", m |-> None, t |-> None, u |-> None, tu |-> None, us |-> << >>, isMeasure |-> FALSE,
     f |-> NoFn, v |-> Num(0), e |-> NoDensity,
     err |-> "", value |-> Num(0), unit |-> None, fn |-> NoFn]

Returned(c, a) == Then(a, LAMBDA r : [c EXCEPT !.err = r.err, !.value = r.value, !.unit = r.unit])

(* the two shapes of transform the module registers, on the base units *)
TransformFns(m, t) == { Times(baseUnit(m), baseUnit(t)), Over(baseUnit(m), baseUnit(t)) }

Init ==
    /\ unitName = << >>
    /\ unitConverter = << >>
    /\ unitMeasure = << >>
    /\ mUnits = << >>
    /\ mAttrs = << >>
    /\ mTransforms = << >>
    /\ call = NoCall

(* Unit(name, converter=converter) *)
NewUnit(name, converter) ==
    /\ Len(unitName) < MaxUnits
    /\ unitName' = Append(unitName, name)
    /\ unitConverter' = Append(unitConverter, converter)
    /\ unitMeasure' = Append(unitMeasure, None)
    /\ call' = [NoCall EXCEPT !.op = "Unit", !.u = Len(unitName) + 1]
    /\ UNCHANGED <<mUnits, mAttrs, mTransforms>>

(* Measure(name, u) *)
NewMeasure(u) ==
    /\ Len(mUnits) < MaxMeasures
    /\ LET h == MeasureInit(Heap, u) IN
        /\ unitMeasure' = h.measure
        /\ mUnits' = h.units
        /\ mAttrs' = h.attrs
    /\ mTransforms' = Append(mTransforms, [x \in {} |-> NoFn])
    /\ call' = [NoCall EXCEPT !.op = "Measure", !.m = Len(mUnits) + 1, !.u = u]
    /\ UNCHANGED <<unitName, unitConverter>>

(* m.addUnit(u) *)
AddUnit(m, u) ==
    /\ LET r == CallAddUnit(Heap, m, u) IN
        /\ unitMeasure' = r.h.measure
        /\ mUnits' = r.h.units
        /\ mAttrs' = r.h.attrs
        /\ call' = [NoCall EXCEPT !.op = "addUnit", !.m = m, !.u = u, !.err = r.err]
    /\ UNCHANGED <<unitName, unitConverter, mTransforms>>

(* m.addUnits(us) *)
AddUnits(m, us) ==
    /\ LET r == CallAddUnits(Heap, m, us) IN
        /\ unitMeasure' = r.h.measure
        /\ mUnits' = r.h.units
        /\ mAttrs' = r.h.attrs
        /\ call' = [NoCall EXCEPT !.op = "addUnits", !.m = m, !.us = us, !.err = r.err]
    /\ UNCHANGED <<unitName, unitConverter, mTransforms>>

(* m.addTransform(t, f) *)
AddTransform(m, t, f) ==
    /\ LET r == addTransform(m, t, f) IN
        /\ mTransforms' = r.tf
        /\ call' = [NoCall EXCEPT !.op = "addTransform", !.m = m, !.t = t, !.f = f, !.err = r.err]
    /\ UNCHANGED <<unitName, unitConverter, unitMeasure, mUnits, mAttrs>>

(* m.transformTo(t) *)
TransformTo(m, t) ==
    /\ LET r == transformTo(m, t) IN
        call' = [NoCall EXCEPT !.op = "transformTo", !.m = m, !.t = t, !.err = r.err, !.fn = r.fn]
    /\ UNCHANGED <<unitName, unitConverter, unitMeasure, mUnits, mAttrs, mTransforms>>

(* Amount(v, u).to(t) *)
AmountTo(v, u, t) ==
    /\ call' = Returned([NoCall EXCEPT !.op = "to", !.v = v, !.u = u, !.tu = t], to(v, u, t))
    /\ UNCHANGED <<unitName, unitConverter, unitMeasure, mUnits, mAttrs, mTransforms>>

(* Amount(v, u).toBaseUnit() *)
ToBaseUnit(v, u) ==
    /\ call' = Returned([NoCall EXCEPT !.op = "toBaseUnit", !.v = v, !.u = u], toBaseUnit(v, u))
    /\ UNCHANGED <<unitName, unitConverter, unitMeasure, mUnits, mAttrs, mTransforms>>

(* Ingredient(Amount(v, u), e).to(target), target a Unit or a Measure *)
IngredientToUnit(v, u, e, t) ==
    /\ call' = Returned([NoCall EXCEPT !.op = "Ingredient.to", !.v = v, !.u = u, !.e = e, !.tu = t],
                        IngredientTo(v, u, e, FALSE, t))
    /\ UNCHANGED <<unitName, unitConverter, unitMeasure, mUnits, mAttrs, mTransforms>>

IngredientToMeasure(v, u, e, t) ==
    /\ call' = Returned([NoCall EXCEPT !.op = "Ingredient.to", !.v = v, !.u = u, !.e = e,
                                       !.isMeasure = TRUE, !.t = t],
                        IngredientTo(v, u, e, TRUE, t))
    /\ UNCHANGED <<unitName, unitConverter, unitMeasure, mUnits, mAttrs, mTransforms>>

(* Amount(v, u).to(m.baseUnit).to(u): there and back through the base unit of m *)
RoundTrip(v, u, m) ==
    /\ call' = Then(to(v, u, baseUnit(m)), LAMBDA there :
                   Returned([NoCall EXCEPT !.op = "to.to", !.v = v, !.u = u, !.m = m],
                            IF there.err # "" THEN there ELSE to(there.value, there.unit, u)))
    /\ UNCHANGED <<unitName, unitConverter, unitMeasure, mUnits, mAttrs, mTransforms>>

(* Ingredient(Amount(v, u), e).to(w).to(u): to another Measure's unit and back *)
IngredientRoundTrip(v, u, e, w) ==
    /\ call' = Then(IngredientTo(v, u, e, FALSE, w), LAMBDA there :
                   Returned([NoCall EXCEPT !.op = "Ingredient.to.to", !.v = v, !.u = u, !.e = e, !.tu = w],
                            IF there.err # "" THEN there
                            ELSE IngredientTo(there.value, there.unit, e, FALSE, u)))
    /\ UNCHANGED <<unitName, unitConverter, unitMeasure, mUnits, mAttrs, mTransforms>>

(* The calls that read the registries and write nothing. What such a call   *)
(* returns does not depend on the reads made before it, so the             *)
(* specifications below make each read right after a registry operation:   *)
(* the states reached are the same as with reads following reads.          *)
Reads == {"transformTo", "to", "toBaseUnit", "Ingredient.to", "to.to", "Ingredient.to.to"}

Settled == call.op \notin Reads

(* ---------------- registry specification ---------------- *)
(* The units a client builds, in order: two ordinary units of one name, then *)
(* a unit named like an attribute of Measure.                                *)
RegistryUnits(i) ==
    IF i = 1 THEN {<<"a", Neutral>>}
    ELSE IF i = 2 THEN {<<"a", Linear(Num(2), Num(1))>>}
    ELSE IF i = 3 THEN {<<n, Neutral>> : n \in Fields \cup Methods}
    ELSE {<<"b", Neutral>>}

Next ==
    \/ \E k \in RegistryUnits(Len(unitName) + 1) : NewUnit(k[1], k[2])
    \/ \E u \in UnitIds : NewMeasure(u)
    \/ \E m \in MeasureIds, u \in UnitIds : AddUnit(m, u)
    \/ \E m \in MeasureIds, us \in UnitIds \X UnitIds : AddUnits(m, us)
    \/ \E m \in MeasureIds : \E t \in MeasureIds \ {m} : \E f \in TransformFns(m, t) : AddTransform(m, t, f)
    \/ Settled /\ \E m \in MeasureIds, t \in MeasureIds : TransformTo(m, t)
    \/ Settled /\ \E v \in Values, u \in UnitIds : ToBaseUnit(v, u)

Spec == Init /\ [][Next]_vars

(* ---------------- Amount specification ---------------- *)
AmountUnits(i) ==
    IF i = 1 THEN {<<"a", Neutral>>, <<"a", Linear(Num(2), Num(1))>>}
    ELSE IF i = 2 THEN {<<"b", Linear(Num(2), Num(1))>>, <<"b", Linear(Num(0), Num(1))>>}
    ELSE IF i = 3 THEN {<<n, reverse(Linear(Num(2), Num(1)))>> : n \in {"a", "baseUnit", "name"}}
    ELSE {<<"b", Constant(Num(3))>>}

NextAmount ==
    \/ \E k \in AmountUnits(Len(unitName) + 1) : NewUnit(k[1], k[2])
    \/ \E u \in UnitIds : NewMeasure(u)
    \/ \E m \in MeasureIds, u \in UnitIds : AddUnit(m, u)
    \/ Settled /\ \E v \in Values, u \in UnitIds, t \in UnitIds : AmountTo(v, u, t)
    \/ Settled /\ \E v \in Values, u \in UnitIds : ToBaseUnit(v, u)
    \/ Settled /\ \E v \in Values, u \in UnitIds, m \in MeasureIds : RoundTrip(v, u, m)

SpecAmount == Init /\ [][NextAmount]_vars

(* ---------------- Ingredient specification ---------------- *)
IngredientUnits(i) ==
    IF i = 1 THEN {<<"a", Neutral>>}
    ELSE IF i = 2 THEN {<<"b", Linear(Num(2), Num(1))>>}
    ELSE IF i = 3 THEN {<<n, Neutral>> : n \in {"a", "name", "transformTo"}}
    ELSE {<<"b", Constant(Num(3))>>}

(* as the module registers them: times one way, over the other way *)
DensityFn(m, t) ==
    IF m < t THEN Times(baseUnit(m), baseUnit(t)) ELSE Over(baseUnit(m), baseUnit(t))

Substances == { Element(Rat(7, 10)), NoDensity }

NextIngredient ==
    \/ \E k \in IngredientUnits(Len(unitName) + 1) : NewUnit(k[1], k[2])
    \/ \E u \in UnitIds : NewMeasure(u)
    \/ \E m \in MeasureIds, u \in UnitIds : AddUnit(m, u)
    \/ \E m \in MeasureIds : \E t \in MeasureIds \ {m} : AddTransform(m, t, DensityFn(m, t))
    \/ Settled /\ \E u \in UnitIds, t \in UnitIds : AmountTo(Num(1), u, t)
    \/ Settled /\ \E u \in UnitIds, e \in Substances, t \in UnitIds : IngredientToUnit(Num(1), u, e, t)
    \/ Settled /\ \E u \in UnitIds, e \in Substances, t \in MeasureIds : IngredientToMeasure(Num(1), u, e, t)

SpecIngredient == Init /\ [][NextIngredient]_vars

(* ---------------- the module's own catalog ---------------- *)
(* SIUnitsFromUnit: the six Units prefixed milli .. kilo; names is the six  *)
(* prefixed names (t[0] + unit.name), in the order of the list              *)
SIUnitsFromUnit(names) ==
    << <<names[1], Linear(Rat(1, 1000), Num(0))>>,
       <<names[2], Linear(Rat(1, 100), Num(0))>>,
       <<names[3], Linear(Rat(1, 10), Num(0))>>,
       <<names[4], Linear(Num(10), Num(0))>>,
       <<names[5], Linear(Num(100), Num(0))>>,
       <<names[6], Linear(Num(1000), Num(0))>> >>

(* every Unit the module builds while it is imported, in order of construction *)
CatalogUnits ==
    << <<"gram", Neutral>> >>
    \o SIUnitsFromUnit(<<"milligram", "centigram", "decigram", "decagram", "hectogram", "kilogram">>)
    \o << <<"liter", Neutral>> >>
    \o SIUnitsFromUnit(<<"milliliter", "centiliter", "deciliter", "decaliter", "hectoliter", "kiloliter">>)
    \o << <<"celsius", Neutral>>,
          <<"kelvin", Constant(Rat(0 - 27315, 100))>>,
          <<"fahrenheit", reverse(Linear(Rat(18, 10), Num(32)))>>,
          <<"thermostat", Linear(Num(30), Num(0))>> >>
    \o << <<"meter", Neutral>> >>
    \o SIUnitsFromUnit(<<"millimeter", "centimeter", "decimeter", "decameter", "hectometer", "kilometer">>)
    \o << <<"second", Neutral>>,
          <<"minute", Linear(Num(60), Num(0))>>,
          <<"hour", Linear(Num(3600), Num(0))>> >>
    \o << <<"pinch", Linear(Rat(625, 1000000), Num(0))>>,
          <<"teaspoon", Linear(Rat(5, 1000), Num(0))>>,
          <<"tablespoon", Linear(Rat(15, 1000), Num(0))>>,
          <<"FluidOunce", Linear(Rat(3, 100), Num(0))>>,
          <<"stick", Linear(Rat(126, 1000), Num(0))>>,
          <<"cup", Linear(Rat(240, 1000), Num(0))>>,
          <<"pint", Linear(Rat(47318, 100000), Num(0))>>,
          <<"quart", Linear(Rat(94635, 100000), Num(0))>>,
          <<"gallon", Linear(Rat(378541, 100000), Num(0))>> >>
    \o << <<"Ounce", Linear(Rat(45359237, 1600000), Num(0))>>,
          <<"Pound", Linear(Rat(45359237, 100000), Num(0))>> >>

(* the Measures in order of construction *)
Mass == 1
Volume == 2
Temperature == 3
Length == 4
Time == 5

gram == 1
liter == 8
celsius == 15
meter == 19
second == 26

Range(a, b) == [i \in 1 .. (b - a + 1) |-> a + i - 1]

(* the module's top-level statements that build Measures and add Units *)
CatalogScript ==
    << [m |-> None, us |-> <<gram>>],        [m |-> Mass, us |-> Range(2, 7)],
       [m |-> None, us |-> <<liter>>],       [m |-> Volume, us |-> Range(9, 14)],
       [m |-> None, us |-> <<celsius>>],     [m |-> Temperature, us |-> Range(16, 18)],
       [m |-> None, us |-> <<meter>>],       [m |-> Length, us |-> Range(20, 25)],
       [m |-> None, us |-> <<second>>],      [m |-> Time, us |-> Range(27, 28)],
       [m |-> Volume, us |-> Range(29, 37)], [m |-> Mass, us |-> Range(38, 39)] >>

(* Measure(name, us[1]) when m is None, m.addUnits(us) otherwise *)
Statement(h, st) ==
    IF st.m = None THEN MeasureInit(h, st.us[1]) ELSE CallAddUnits(h, st.m, st.us).h

RECURSIVE Run(_, _)
Run(h, script) ==
    IF script = << >> THEN h
    ELSE Then(Statement(h, Head(script)), LAMBDA h1 : Run(h1, Tail(script)))

(* the registries after the module's top-level statements have run *)
CatalogHeap ==
    Run([measure |-> [i \in 1 .. Len(CatalogUnits) |-> None], units |-> << >>, attrs |-> << >>],
        CatalogScript)

InitCatalog ==
    /\ unitName = [i \in 1 .. Len(CatalogUnits) |-> CatalogUnits[i][1]]
    /\ unitConverter = [i \in 1 .. Len(CatalogUnits) |-> CatalogUnits[i][2]]
    /\ unitMeasure = CatalogHeap.measure
    /\ mUnits = CatalogHeap.units
    /\ mAttrs = CatalogHeap.attrs
    /\ LET milliliter == CatalogHeap.attrs[Volume]["milliliter"].u
           g == CatalogHeap.attrs[Mass]["gram"].u
       IN  mTransforms = [m \in 1 .. 5 |->
              IF m = Volume THEN (Mass :> Times(milliliter, g))
              ELSE IF m = Mass THEN (Volume :> Over(g, milliliter))
              ELSE [x \in {} |-> NoFn]]
    /\ call = NoCall

Flour == Element(Rat(7, 10))
Sugar == Element(Rat(12, 10))
Salt == Element(Rat(12, 10))
Butter == Element(Rat(9, 10))

Substance == {Flour, Sugar, Salt, Butter}

UnitsOf(m) == { mUnits[m][n] : n \in DOMAIN mUnits[m] }

(* The amounts converted: TLC's integers are 32 bits wide, and with the     *)
(* factors of Ounce and Pound (45359237/1600000, 45359237/100000) only     *)
(* amounts of the right magnitude keep every quotient in lowest terms      *)
(* within them.                                                            *)
SameMeasureValues == { Num(1) }
VolumeValues == { Rat(1, 1000), Rat(1, 2000) }
MassValues == { Num(1000), Num(2000) }

NextCatalog ==
    \/ Settled /\ \E v \in SameMeasureValues, m \in {Mass, Volume, Temperature, Length, Time} : \E u \in UnitsOf(m), t \in UnitsOf(m) :
            AmountTo(v, u, t)
    \/ Settled /\ \E v \in SameMeasureValues, u \in {liter, gram}, t \in {liter, gram, celsius} : AmountTo(v, u, t)
    \/ Settled /\ \E v \in VolumeValues, u \in UnitsOf(Volume), e \in Substance : IngredientToUnit(v, u, e, gram)
    \/ Settled /\ \E v \in MassValues, u \in UnitsOf(Mass), e \in Substance :
            IngredientToUnit(v, u, e, mUnits[Volume]["milliliter"])
    \/ Settled /\ \E e \in Substance \cup {NoDensity}, t \in {Mass, Volume, Temperature} :
            IngredientToMeasure(Num(1), liter, e, t)
    \/ Settled /\ \E v \in VolumeValues, u \in UnitsOf(Volume), e \in Substance, w \in UnitsOf(Mass) :
            IngredientRoundTrip(v, u, e, w)

SpecCatalog == InitCatalog /\ [][NextCatalog]_vars

(* ======================= the claims ======================= *)
Registered(m, u) == unitName[u] \in DOMAIN mUnits[m] /\ mUnits[m][unitName[u]] = u
NonZeroFactor(u) == unitConverter[u].factor[1] # 0

(* C1: a Unit belongs to at most one Measure: once a unit's measure        *)
(* reference is set it never changes, and m.addUnit(u) for a unit u that   *)
(* already belongs to another Measure fails.                               *)
C1_OneMeasure ==
    [][ /\ \A u \in UnitIds : unitMeasure[u] # None => unitMeasure'[u] = unitMeasure[u]
        /\ (call'.op = "addUnit" /\ unitMeasure[call'.u] \notin {None, call'.m})
              => call'.err # "" ]_vars

(* C2: m.addUnit(u) raises the duplicate-unit error (ValueError) and       *)
(* changes nothing when a unit of u's name is registered in m; otherwise   *)
(* it succeeds, stores u under its name and sets u.measure to m.           *)
C2_AddUnit ==
    [][ \A m \in MeasureIds, u \in UnitIds :
          (call'.op = "addUnit" /\ call'.m = m /\ call'.u = u) =>
              IF unitName[u] \in DOMAIN mUnits[m]
              THEN /\ call'.err = "ValueError"
                   /\ UNCHANGED <<unitMeasure, mUnits, mAttrs, mTransforms>>
              ELSE /\ call'.err = ""
                   /\ Registered(m, u)'
                   /\ unitMeasure'[u] = m ]_vars

(* C8: transform registration is first-wins: addTransform(t, f) registers  *)
(* f when m has no transform to t and is otherwise a silent no-op, never   *)
(* touching other targets; nothing else changes the transforms; and        *)
(* transformTo(t) returns the registered function.                         *)
C8_FirstWins ==
    [][ /\ call'.op = "addTransform" =>
              /\ call'.err = ""
              /\ mTransforms' =
                    IF call'.t \in DOMAIN mTransforms[call'.m] THEN mTransforms
                    ELSE [mTransforms EXCEPT ![call'.m] = Put(@, call'.t, call'.f)]
        /\ (call'.op = "transformTo" /\ call'.t \in DOMAIN mTransforms[call'.m]) =>
              /\ call'.err = ""
              /\ call'.fn = mTransforms[call'.m][call'.t]
        /\ (call'.op \notin {"addTransform", "Measure"}) => UNCHANGED mTransforms ]_vars

(* C9: the base unit of every Measure is in the Measure's units and its    *)
(* converter is the identity, so toBaseUnit() of an Amount in the base     *)
(* unit returns the same value.                                            *)
C9_BaseUnitIdentity ==
    /\ \A m \in MeasureIds :
          /\ GetAttr(Heap, m, "units") = Own
          /\ Registered(m, baseUnit(m))
          /\ \A v \in Values :
                /\ toBase(unitConverter[baseUnit(m)], v) = Ok(v)
                /\ fromBase(unitConverter[baseUnit(m)], v) = Ok(v)
    /\ (/\ call.op = "toBaseUnit"
        /\ unitMeasure[call.u] # None
        /\ call.u = baseUnit(unitMeasure[call.u]))
          => (call.err = "" /\ call.value = call.v /\ call.unit = call.u)

(* C10: a successful m.addUnit(u) leaves m's name, base unit, units        *)
(* mapping object, transforms and methods as they were, and the units      *)
(* registered before under other names in place.                           *)
C10_AddUnitFrame ==
    [][ \A m \in MeasureIds :
          (call'.op = "addUnit" /\ call'.err = "" /\ call'.m = m) =>
          /\ \A a \in Fields \cup Methods : GetAttr(Heap, m, a)' = GetAttr(Heap, m, a)
          /\ \A n \in DOMAIN mUnits[m] : n \in DOMAIN mUnits'[m] /\ mUnits'[m][n] = mUnits[m][n]
          /\ UNCHANGED mTransforms ]_vars

(* --- Amount --- *)
SameMeasure(u, t) == unitMeasure[u] # None /\ unitMeasure[t] = unitMeasure[u]

C4_Mismatch ==
    (/\ call.op = "to"
     /\ unitMeasure[call.u] # None /\ unitMeasure[call.tu] # None
     /\ unitMeasure[call.u] # unitMeasure[call.tu])
        => (call.err = "TypeError" /\ call.unit = None)

(* a mismatch between two Measures that have a transform registered *)
C4_Witness ==
    /\ call.op = "to" /\ call.err = "TypeError"
    /\ unitMeasure[call.u] # None /\ unitMeasure[call.tu] # None
    /\ unitMeasure[call.u] # unitMeasure[call.tu]
    /\ unitMeasure[call.tu] \in DOMAIN mTransforms[unitMeasure[call.u]]

(* C5: for a unit U registered in a Measure M, with a converter of         *)
(* non-zero factor, Amount(v, U).to(M.baseUnit).to(U) has the value v.     *)
C5_RoundTrip ==
    (call.op = "to.to" /\ Registered(call.m, call.u) /\ NonZeroFactor(call.u))
        => (call.err = "" /\ call.value = call.v /\ call.unit = call.u)

(* --- Ingredient --- *)
(* C6: Ingredient.to resolves a Measure to its base unit; within the       *)
(* amount's Measure it converts the amount; otherwise it applies the       *)
(* transform the source Measure holds for the target Measure and converts  *)
(* the result to the unit, raising the no-transform error (ValueError)     *)
(* when there is none; a result has the requested unit.                    *)
C6_Dispatch ==
    call.op = "Ingredient.to" =>
        LET unit == IF call.isMeasure THEN baseUnit(call.t) ELSE call.tu
            from == unitMeasure[call.u]
            target == unitMeasure[unit]
        IN  (from # None /\ target # None) =>
              /\ call.err = "" => call.unit = unit
              /\ from = target => Returned(call, to(call.v, call.u, unit)) = call
              /\ (from # target /\ target \notin DOMAIN mTransforms[from])
                    => call.err = "ValueError"
              /\ (from # target /\ target \in DOMAIN mTransforms[from]) =>
                    LET n == Apply(mTransforms[from][target], call.v, call.u, call.e) IN
                    Returned(call, IF n.err # "" THEN n ELSE to(n.value, n.unit, unit)) = call

(* C7: with the module's transforms, a Volume amount of a substance taken  *)
(* to any Mass unit and back has its value again; Volume to Mass is the    *)
(* milliliter value times the density, in grams, and Mass to Volume the    *)
(* gram value over the density, in milliliters.                            *)
C7_DensityRoundTrip ==
    LET milliliter == mUnits[Volume]["milliliter"] IN
    /\ call.op = "Ingredient.to.to"
          => (call.err = "" /\ call.value = call.v /\ call.unit = call.u)
    /\ (call.op = "Ingredient.to" /\ ~call.isMeasure /\ call.e.has
        /\ unitMeasure[call.u] = Volume /\ call.tu = gram)
          => /\ call.err = "" /\ call.unit = gram
             /\ call.value = RMul(to(call.v, call.u, milliliter).value, call.e.density)
    /\ (call.op = "Ingredient.to" /\ ~call.isMeasure /\ call.e.has
        /\ unitMeasure[call.u] = Mass /\ call.tu = milliliter)
          => /\ call.err = "" /\ call.unit = milliliter
             /\ call.value = RDiv(to(call.v, call.u, gram).value, call.e.density)

(* cups of butter to pounds and back *)
C7_Witness ==
    /\ call.op = "Ingredient.to.to" /\ call.err = ""
    /\ unitName[call.u] = "cup" /\ unitName[call.tu] = "Pound"
    /\ call.e = Butter
    /\ call.value = call.v

====
